---- MODULE Spec2Model ----
(***************************************************************************)
(* A model of the 2PX3 highway simulation: the grid (Highway), the driver  *)
(* records (Driver) and the tick engine (Simulation) of highway_sim_V2.py  *)
(* and of its variant sim_client_requests.py, and the two-lane original    *)
(* highway_sim1.py.                                                        *)
(*                                                                         *)
(* A Python list of n elements is a function on 0..n-1.  A cell of the     *)
(* road holds EMPTY or a reference to a Driver object; the objects live in *)
(* the heap `drivers` and a reference is an index into it, so that two     *)
(* cells holding the same object alias it as they do in Python.            *)
(* Probabilities and the values of random.random() are in thousandths.     *)
(***************************************************************************)
EXTENDS Integers, Sequences, FiniteSets, TLC

VARIABLES
  program,       \* which of the programs runs: its file name
  road,          \* Highway.road: lane -> position -> EMPTY or a driver reference
  drivers,       \* the Driver objects created so far, by reference
  current_step,  \* Simulation.current_step
  num_cars,      \* Simulation.num_cars
  data,          \* Simulation.data: the exit records
  crashes,       \* Simulation.crashes (sim_client_requests only)
  pc,            \* "run": between two ticks; "sweep": inside execute_time_step
  cursor,        \* the next cell <<i, k>> the sweep of execute_time_step visits
  fault,         \* "none", or the exception that ended the program
  writes,        \* the Highway.set calls of the last step, in order
  start_road,    \* the road when the current (or last) tick began
  start_data,    \* Len(data) when the current (or last) tick began
  visits,        \* the sim_driver calls of the current (or last) tick, in order
  created,       \* the references created by gen_new_drivers in the last tick
  arrived,       \* for each reference, the tick in which it was created
  call           \* the last direct call of a Highway method (SpecCalls only)

vars == <<program, road, drivers, current_step, num_cars, data, crashes, pc, cursor,
          fault, writes, start_road, start_data, visits, created, arrived,
          call>>

-----------------------------------------------------------------------------
(* Program constants *)

EMPTY == 0
FAST == 5
SLOW == 4
HUMAN_SAFE_FOLLOW == 4
SDC_SAFE_FOLLOW == 2
LANE_CHANGE_SAFE_BACK == FAST
LANE_CHANGE_SAFE_FORWARD == FAST
CRUISE == "Cruise"
LANE_CHANGE == "Lane Change"
LANE_CHANGE_LEFT == "Left Lane Change"
LANE_CHANGE_RIGHT == "Right Lane Change"
LEFT_LANE_CHANGE_PROBABILITY == 500
NUM_DEF_LANES == 3
NUM_SD_LANES == 1
DRUNK_CRASH_PROB == 10
CRASH_PROB == 1
\* highway_sim1.py
SAFE_FOLLOW == 4
LEFT == 0
RIGHT == 1

(* Bounds of the model *)

\* The road of the simulations: long enough for a driver to be blocked, change
\* lane and exit within NUM_TIME_STEPS ticks.
HIGHWAY_LENGTH == 11
NUM_LANES == 2
\* The ticks run() executes and the drivers gen_new_drivers may create, for
\* highway_sim_V2 and highway_sim1, and for sim_client_requests.
NUM_TIME_STEPS == 4
MaxCars == 3
NUM_TIME_STEPS_client == 3
MaxCars_client == 2
\* The same for highway_sim_V2 on a road of one lane: enough for a convoy in which
\* a driver is left with no more than safe_follow clear cells ahead.
NUM_TIME_STEPS_single == 6
MaxCars_single == 5
\* The roads the methods of Highway are called on directly: their lanes, their
\* length (positions with a full window behind and ahead exist from
\* LANE_CHANGE_SAFE_BACK + LANE_CHANGE_SAFE_FORWARD + 1 on) and their occupied cells.
NumCallLanes == 2
CallLength == 12
MaxOccupied == 2

\* The values random.random() is drawn from, in thousandths: the threshold and
\* the value next above it (the draw is only compared with the threshold).
RandomDraws == {LEFT_LANE_CHANGE_PROBABILITY, LEFT_LANE_CHANGE_PROBABILITY + 1}

\* The same for sim_client_requests: a value below both crash thresholds, one
\* between them, and one on each side of the lane-change threshold.
RandomDraws_client ==
  {0, CRASH_PROB, LEFT_LANE_CHANGE_PROBABILITY, LEFT_LANE_CHANGE_PROBABILITY + 1}
\* The draw of sim_cruise is compared with the crash thresholds only.
CruiseDraws_client == {0, CRASH_PROB, DRUNK_CRASH_PROB}

-----------------------------------------------------------------------------
(* Python lists *)

\* lst[i] is defined for -n <= i < n; a negative index counts from the end.
InRange(n, i) == -n <= i /\ i < n
PyIndex(n, i) == IF i < 0 THEN i + n ELSE i

-----------------------------------------------------------------------------
(* Driver *)

Driver(car_id, speed, arrive_time, is_human) ==
  [id |-> car_id, desire |-> CRUISE, is_human |-> is_human, speed |-> speed,
   safe_follow |-> IF is_human THEN HUMAN_SAFE_FOLLOW ELSE SDC_SAFE_FOLLOW,
   arrive_time |-> arrive_time, final_time |-> 0, travel_time |-> 0,
   final_dist |-> 0, avg_speed |-> <<speed, 1>>]

output_data(drv) ==
  [id |-> drv.id, speed |-> drv.speed, is_human |-> drv.is_human,
   arrive_time |-> drv.arrive_time, final_time |-> drv.final_time,
   travel_time |-> drv.travel_time, final_dist |-> drv.final_dist,
   avg_speed |-> drv.avg_speed]

-----------------------------------------------------------------------------
(* Highway *)

Highway(length, num_lanes) ==
  [lane \in 0 .. num_lanes - 1 |-> [index \in 0 .. length - 1 |-> EMPTY]]

get(rd, lane, index) == rd[lane][index]

\* len(self.road) and len(self.road[0])
NumLanesOf(rd) == Cardinality(DOMAIN rd)
LengthOf(rd) == Cardinality(DOMAIN rd[0])

\* The machine state m the methods of Simulation work on:
\* [road, drivers, data, crashes, fault, writes].  An exception stops everything
\* that follows it.
set(m, lane, index, value) ==
  IF m.fault # "none" THEN m
  ELSE IF ~InRange(NumLanesOf(m.road), lane) \/ ~InRange(LengthOf(m.road), index)
  THEN [m EXCEPT !.fault = "IndexError"]
  ELSE [m EXCEPT
          !.road[PyIndex(NumLanesOf(m.road), lane)][PyIndex(LengthOf(m.road), index)] = value,
          !.writes = Append(@, [lane |-> lane, index |-> index, value |-> value])]

\* A faulty variant of the loop below: at the end of the road it returns the cells
\* counted so far, not k.
RECURSIVE safe_distance_loop_counts_to_end(_, _, _, _, _, _, _)
safe_distance_loop_counts_to_end(rd, lane, i, last, k, x, reads) ==
  IF i > last THEN [ret |-> x, reads |-> reads]
  ELSE IF i >= LengthOf(rd) THEN [ret |-> x, reads |-> reads]
  ELSE IF rd[lane][i] # EMPTY THEN [ret |-> x, reads |-> reads \cup {i}]
  ELSE safe_distance_loop_counts_to_end(rd, lane, i + 1, last, k, x + 1,
                                        reads \cup {i})

\* The loop of safe_distance_within from i on, x cells counted so far.
\* ret is the value returned, reads the indices of the lane it read.
RECURSIVE safe_distance_loop(_, _, _, _, _, _, _)
safe_distance_loop(rd, lane, i, last, k, x, reads) ==
  IF i > last THEN [ret |-> x, reads |-> reads]
  ELSE IF i >= LengthOf(rd) THEN [ret |-> k, reads |-> reads]
  ELSE IF rd[lane][i] # EMPTY THEN [ret |-> x, reads |-> reads \cup {i}]
  ELSE safe_distance_loop(rd, lane, i + 1, last, k, x + 1, reads \cup {i})

safe_distance_scan(rd, lane, index, k) ==
  safe_distance_loop(rd, lane, index + 1, index + k, k, 0, {})

\* A faulty variant of safe_distance_within: the cells past the end of the road
\* are not counted as clear.
safe_distance_within_clipped(rd, lane, index, k) ==
  LET x == safe_distance_scan(rd, lane, index, k).ret
      left == LengthOf(rd) - 1 - index
  IN IF x < left THEN x ELSE left

safe_distance_within(rd, lane, index, k) ==
  safe_distance_scan(rd, lane, index, k).ret

\* A faulty variant of the scan below: the cells ahead are read up to
\* i + LANE_CHANGE_SAFE_FORWARD - 1 only.
lane_change_scan_short_ahead(rd, row, i) ==
  LET length == LengthOf(rd)
      behind == {i - b : b \in 1 .. LANE_CHANGE_SAFE_BACK}
      ahead == {i + f : f \in 1 .. LANE_CHANGE_SAFE_FORWARD - 1}
      rowOk == InRange(NumLanesOf(rd), row)
      r == PyIndex(NumLanesOf(rd), row)
      adjOk == InRange(length, i)
      behindRead ==
        {k \in behind : \A j \in behind : j >= k => InRange(length, j)}
      behindOk == behindRead = behind
      aheadRead ==
        {k \in ahead : \A j \in ahead : j <= k => InRange(length, j)}
      aheadOk == aheadRead = ahead
      raw == IF ~(rowOk /\ adjOk) THEN {}
             ELSE {i} \cup behindRead \cup (IF behindOk THEN aheadRead ELSE {})
      cells == {<<r, PyIndex(length, k)>> : k \in raw}
  IN IF rowOk /\ adjOk /\ behindOk /\ aheadOk
     THEN [ret |-> \A c \in cells : rd[c[1]][c[2]] = EMPTY,
           reads |-> cells, fault |-> "none"]
     ELSE [ret |-> FALSE, reads |-> cells, fault |-> "IndexError"]

\* The three reads of a lane-change check in lane `row` around position i: the
\* adjacent cell, LANE_CHANGE_SAFE_BACK cells behind (from i-1 down) and
\* LANE_CHANGE_SAFE_FORWARD cells ahead (from i+1 up).  No read ends the scan
\* early; an index outside the list raises IndexError.
\* ret: the value returned; reads: the cells <<lane, index>> read.
lane_change_scan(rd, row, i) ==
  LET length == LengthOf(rd)
      behind == {i - b : b \in 1 .. LANE_CHANGE_SAFE_BACK}
      ahead == {i + f : f \in 1 .. LANE_CHANGE_SAFE_FORWARD}
      rowOk == InRange(NumLanesOf(rd), row)
      r == PyIndex(NumLanesOf(rd), row)
      adjOk == InRange(length, i)
      behindRead ==
        {k \in behind : \A j \in behind : j >= k => InRange(length, j)}
      behindOk == behindRead = behind
      aheadRead ==
        {k \in ahead : \A j \in ahead : j <= k => InRange(length, j)}
      aheadOk == aheadRead = ahead
      raw == IF ~(rowOk /\ adjOk) THEN {}
             ELSE {i} \cup behindRead \cup (IF behindOk THEN aheadRead ELSE {})
      cells == {<<r, PyIndex(length, k)>> : k \in raw}
  IN IF rowOk /\ adjOk /\ behindOk /\ aheadOk
     THEN [ret |-> \A c \in cells : rd[c[1]][c[2]] = EMPTY,
           reads |-> cells, fault |-> "none"]
     ELSE [ret |-> FALSE, reads |-> cells, fault |-> "IndexError"]

safe_right_lane_change(rd, lane, i) ==
  IF lane = NumLanesOf(rd) - 1
  THEN [ret |-> FALSE, reads |-> {}, fault |-> "none"]
  ELSE lane_change_scan(rd, lane + 1, i)

\* A faulty variant of safe_left_lane_change: no test for the leftmost lane.
safe_left_lane_change_unguarded(rd, lane, i) ==
  lane_change_scan(rd, lane - 1, i)

safe_left_lane_change(rd, lane, i) ==
  IF lane = 0
  THEN [ret |-> FALSE, reads |-> {}, fault |-> "none"]
  ELSE lane_change_scan(rd, lane - 1, i)

-----------------------------------------------------------------------------
(* Simulation (highway_sim_V2.py) *)

set_desire(m, d, desire) ==
  IF m.fault # "none" THEN m ELSE [m EXCEPT !.drivers[d].desire = desire]

\* A faulty variant of sim_cruise: the cell the driver leaves is not cleared.
sim_cruise_keeps_origin(m, lane, i) ==
  IF m.fault # "none" THEN m
  ELSE
    LET d == get(m.road, lane, i)
        drv == m.drivers[d]
        x == safe_distance_within(m.road, lane, i, drv.speed + drv.safe_follow)
    IN IF x = drv.speed + drv.safe_follow
       THEN set(m, lane, i + drv.speed, d)
       ELSE IF x > drv.safe_follow
       THEN set(set_desire(m, d, LANE_CHANGE), lane, i + x - drv.safe_follow, d)
       ELSE set(set_desire(m, d, LANE_CHANGE), lane, i + 1, d)

\* A faulty variant of sim_cruise: with the road clear the driver moves one cell
\* more than its speed.
sim_cruise_overshoots(m, lane, i) ==
  IF m.fault # "none" THEN m
  ELSE
    LET d == get(m.road, lane, i)
        drv == m.drivers[d]
        x == safe_distance_within(m.road, lane, i, drv.speed + drv.safe_follow)
        moved ==
          IF x = drv.speed + drv.safe_follow
          THEN set(m, lane, i + drv.speed + 1, d)
          ELSE IF x > drv.safe_follow
          THEN set(set_desire(m, d, LANE_CHANGE), lane, i + x - drv.safe_follow, d)
          ELSE set(set_desire(m, d, LANE_CHANGE), lane, i + 1, d)
    IN set(moved, lane, i, EMPTY)

\* A faulty variant of sim_cruise: a move at full speed sets the desire to Cruise.
sim_cruise_resets_desire(m, lane, i) ==
  IF m.fault # "none" THEN m
  ELSE
    LET d == get(m.road, lane, i)
        drv == m.drivers[d]
        x == safe_distance_within(m.road, lane, i, drv.speed + drv.safe_follow)
        moved ==
          IF x = drv.speed + drv.safe_follow
          THEN set(set_desire(m, d, CRUISE), lane, i + drv.speed, d)
          ELSE IF x > drv.safe_follow
          THEN set(set_desire(m, d, LANE_CHANGE), lane, i + x - drv.safe_follow, d)
          ELSE set(set_desire(m, d, LANE_CHANGE), lane, i + 1, d)
    IN set(moved, lane, i, EMPTY)

\* A faulty variant of sim_cruise: a driver with no more than safe_follow clear
\* cells ahead waits where it is.
sim_cruise_waits(m, lane, i) ==
  IF m.fault # "none" THEN m
  ELSE
    LET d == get(m.road, lane, i)
        drv == m.drivers[d]
        x == safe_distance_within(m.road, lane, i, drv.speed + drv.safe_follow)
    IN IF x = drv.speed + drv.safe_follow
       THEN set(set(m, lane, i + drv.speed, d), lane, i, EMPTY)
       ELSE IF x > drv.safe_follow
       THEN set(set(set_desire(m, d, LANE_CHANGE), lane, i + x - drv.safe_follow, d),
                lane, i, EMPTY)
       ELSE set_desire(m, d, LANE_CHANGE)

\* A faulty variant of sim_cruise: a driver that cannot move at full speed closes
\* up to safe_follow - 1 cells behind the car ahead.
sim_cruise_tailgates(m, lane, i) ==
  IF m.fault # "none" THEN m
  ELSE
    LET d == get(m.road, lane, i)
        drv == m.drivers[d]
        x == safe_distance_within(m.road, lane, i, drv.speed + drv.safe_follow)
        moved ==
          IF x = drv.speed + drv.safe_follow
          THEN set(m, lane, i + drv.speed, d)
          ELSE IF x > drv.safe_follow
          THEN set(set_desire(m, d, LANE_CHANGE), lane, i + x - drv.safe_follow + 1, d)
          ELSE set(set_desire(m, d, LANE_CHANGE), lane, i + 1, d)
    IN set(moved, lane, i, EMPTY)

\* A faulty variant of sim_cruise: a driver that closes up on the car ahead also
\* lowers its speed to the cells it moved.
sim_cruise_slows_down(m, lane, i) ==
  IF m.fault # "none" THEN m
  ELSE
    LET d == get(m.road, lane, i)
        drv == m.drivers[d]
        x == safe_distance_within(m.road, lane, i, drv.speed + drv.safe_follow)
        slowed == [set_desire(m, d, LANE_CHANGE) EXCEPT
                     !.drivers[d].speed = x - drv.safe_follow]
        moved ==
          IF x = drv.speed + drv.safe_follow
          THEN set(m, lane, i + drv.speed, d)
          ELSE IF x > drv.safe_follow
          THEN set(slowed, lane, i + x - drv.safe_follow, d)
          ELSE set(set_desire(m, d, LANE_CHANGE), lane, i + 1, d)
    IN set(moved, lane, i, EMPTY)

sim_cruise(m, lane, i) ==
  IF m.fault # "none" THEN m
  ELSE
    LET d == get(m.road, lane, i)
        drv == m.drivers[d]
        x == safe_distance_within(m.road, lane, i, drv.speed + drv.safe_follow)
        moved ==
          IF x = drv.speed + drv.safe_follow
          THEN set(m, lane, i + drv.speed, d)
          ELSE IF x > drv.safe_follow
          THEN set(set_desire(m, d, LANE_CHANGE), lane, i + x - drv.safe_follow, d)
          ELSE set(set_desire(m, d, LANE_CHANGE), lane, i + 1, d)
    IN set(moved, lane, i, EMPTY)

\* A faulty variant of the exit branch below: travel_time is computed from
\* final_time before the tick is stored in it.
sim_driver_exit_stale_time(m, lane, i, d, step) ==
  LET cleared == set(m, lane, i, EMPTY)
      travel_time == m.drivers[d].final_time - m.drivers[d].arrive_time
      stamped == [cleared EXCEPT !.drivers[d].final_time = step,
                                 !.drivers[d].final_dist = HIGHWAY_LENGTH,
                                 !.drivers[d].travel_time = travel_time]
  IN IF travel_time = 0
     THEN [stamped EXCEPT !.fault = "ZeroDivisionError"]
     ELSE LET done == [stamped EXCEPT
                         !.drivers[d].avg_speed = <<HIGHWAY_LENGTH, travel_time>>]
          IN [done EXCEPT !.data = Append(@, output_data(done.drivers[d]))]

\* The exit branch of sim_driver: the driver leaves the road and is recorded.
sim_driver_exit(m, lane, i, d, step) ==
  LET cleared == set(m, lane, i, EMPTY)
      travel_time == step - m.drivers[d].arrive_time
      stamped == [cleared EXCEPT !.drivers[d].final_time = step,
                                 !.drivers[d].final_dist = HIGHWAY_LENGTH,
                                 !.drivers[d].travel_time = travel_time]
  IN IF travel_time = 0
     THEN [stamped EXCEPT !.fault = "ZeroDivisionError"]
     ELSE LET done == [stamped EXCEPT
                         !.drivers[d].avg_speed = <<HIGHWAY_LENGTH, travel_time>>]
          IN [done EXCEPT !.data = Append(@, output_data(done.drivers[d]))]

\* A faulty variant of choose_direction: a driver that finds neither side safe
\* gives up and goes back to Cruise.
choose_direction_gives_up(m, lane, i, d, r) ==
  LET desire == m.drivers[d].desire
      left == safe_left_lane_change(m.road, lane, i)
      right == safe_right_lane_change(m.road, lane, i)
      first == IF r <= LEFT_LANE_CHANGE_PROBABILITY THEN left ELSE right
      second == IF r <= LEFT_LANE_CHANGE_PROBABILITY THEN right ELSE left
      firstDesire == IF r <= LEFT_LANE_CHANGE_PROBABILITY
                     THEN LANE_CHANGE_LEFT ELSE LANE_CHANGE_RIGHT
      secondDesire == IF r <= LEFT_LANE_CHANGE_PROBABILITY
                      THEN LANE_CHANGE_RIGHT ELSE LANE_CHANGE_LEFT
  IN IF desire # LANE_CHANGE THEN m
     ELSE IF first.fault # "none" THEN [m EXCEPT !.fault = first.fault]
     ELSE IF first.ret THEN set_desire(m, d, firstDesire)
     ELSE IF second.fault # "none" THEN [m EXCEPT !.fault = second.fault]
     ELSE IF second.ret THEN set_desire(m, d, secondDesire)
     ELSE set_desire(m, d, CRUISE)

\* A faulty variant of choose_direction: the left lane is always tried first,
\* whatever the draw.
choose_direction_left_first(m, lane, i, d, r) ==
  LET desire == m.drivers[d].desire
      left == safe_left_lane_change(m.road, lane, i)
      right == safe_right_lane_change(m.road, lane, i)
  IN IF desire # LANE_CHANGE THEN m
     ELSE IF left.fault # "none" THEN [m EXCEPT !.fault = left.fault]
     ELSE IF left.ret THEN set_desire(m, d, LANE_CHANGE_LEFT)
     ELSE IF right.fault # "none" THEN [m EXCEPT !.fault = right.fault]
     ELSE IF right.ret THEN set_desire(m, d, LANE_CHANGE_RIGHT)
     ELSE m

\* The choice of a direction by a driver that wants to change lane.
choose_direction(m, lane, i, d, r) ==
  LET desire == m.drivers[d].desire
      left == safe_left_lane_change(m.road, lane, i)
      right == safe_right_lane_change(m.road, lane, i)
      first == IF r <= LEFT_LANE_CHANGE_PROBABILITY THEN left ELSE right
      second == IF r <= LEFT_LANE_CHANGE_PROBABILITY THEN right ELSE left
      firstDesire == IF r <= LEFT_LANE_CHANGE_PROBABILITY
                     THEN LANE_CHANGE_LEFT ELSE LANE_CHANGE_RIGHT
      secondDesire == IF r <= LEFT_LANE_CHANGE_PROBABILITY
                      THEN LANE_CHANGE_RIGHT ELSE LANE_CHANGE_LEFT
  IN IF desire # LANE_CHANGE THEN m
     ELSE IF first.fault # "none" THEN [m EXCEPT !.fault = first.fault]
     ELSE IF first.ret THEN set_desire(m, d, firstDesire)
     ELSE IF second.fault # "none" THEN [m EXCEPT !.fault = second.fault]
     ELSE IF second.ret THEN set_desire(m, d, secondDesire)
     ELSE m

\* A faulty variant of change_and_cruise: the desire is not set back to Cruise
\* after the lane change.
change_and_cruise_keeps_direction(m, lane, i, d) ==
  IF m.fault # "none" THEN m
  ELSE LET desire == m.drivers[d].desire
       IN IF desire = LANE_CHANGE_RIGHT
          THEN sim_cruise(set(set(m, lane + 1, i, d), lane, i, EMPTY), lane + 1, i)
          ELSE IF desire = LANE_CHANGE_LEFT
          THEN sim_cruise(set(set(m, lane - 1, i, d), lane, i, EMPTY), lane - 1, i)
          ELSE IF desire = CRUISE \/ desire = LANE_CHANGE
          THEN sim_cruise(m, lane, i)
          ELSE m

\* A faulty variant of change_and_cruise: after a lane change sim_cruise is not
\* called.
change_and_cruise_stops(m, lane, i, d) ==
  IF m.fault # "none" THEN m
  ELSE LET desire == m.drivers[d].desire
       IN IF desire = LANE_CHANGE_RIGHT
          THEN set_desire(set(set(m, lane + 1, i, d), lane, i, EMPTY), d, CRUISE)
          ELSE IF desire = LANE_CHANGE_LEFT
          THEN set_desire(set(set(m, lane - 1, i, d), lane, i, EMPTY), d, CRUISE)
          ELSE IF desire = CRUISE \/ desire = LANE_CHANGE
          THEN sim_cruise(m, lane, i)
          ELSE m

\* The lane change, if one was chosen, and the cruise step.
change_and_cruise(m, lane, i, d) ==
  IF m.fault # "none" THEN m
  ELSE LET desire == m.drivers[d].desire
       IN IF desire = LANE_CHANGE_RIGHT
          THEN sim_cruise(set_desire(set(set(m, lane + 1, i, d), lane, i, EMPTY),
                                     d, CRUISE), lane + 1, i)
          ELSE IF desire = LANE_CHANGE_LEFT
          THEN sim_cruise(set_desire(set(set(m, lane - 1, i, d), lane, i, EMPTY),
                                     d, CRUISE), lane - 1, i)
          ELSE IF desire = CRUISE \/ desire = LANE_CHANGE
          THEN sim_cruise(m, lane, i)
          ELSE m

\* A faulty variant of sim_driver: the exit test is one cell late.
sim_driver_exits_late(m, lane, i, r, step) ==
  LET d == get(m.road, lane, i)
  IN IF m.drivers[d].speed + i > LengthOf(m.road) - 1
     THEN sim_driver_exit(m, lane, i, d, step)
     ELSE change_and_cruise(choose_direction(m, lane, i, d, r), lane, i, d)

sim_driver(m, lane, i, r, step) ==
  LET d == get(m.road, lane, i)
  IN IF m.drivers[d].speed + i >= LengthOf(m.road) - 1
     THEN sim_driver_exit(m, lane, i, d, step)
     ELSE change_and_cruise(choose_direction(m, lane, i, d, r), lane, i, d)

\* What gen_new_drivers draws for a lane: no car, or a car of one of four kinds.
NoArrival == [arrive |-> FALSE, is_human |-> TRUE, speed |-> FAST]
Arrivals ==
  {NoArrival} \cup
  {[arrive |-> TRUE, is_human |-> h, speed |-> s] : h \in BOOLEAN, s \in {FAST, SLOW}}

\* A faulty variant of the loop below: current_car_id is not incremented.
RECURSIVE gen_new_drivers_loop_same_id(_, _, _, _, _)
gen_new_drivers_loop_same_id(m, lane, arr, current_car_id, step) ==
  IF lane > NumLanesOf(m.road) - 1 THEN [m |-> m, num_cars |-> current_car_id]
  ELSE IF ~arr[lane].arrive
  THEN gen_new_drivers_loop_same_id(m, lane + 1, arr, current_car_id, step)
  ELSE
    LET born == Driver(current_car_id, arr[lane].speed, step, arr[lane].is_human)
        ref == Len(m.drivers) + 1
        placed == set([m EXCEPT !.drivers = Append(@, born)], lane, 0, ref)
    IN gen_new_drivers_loop_same_id(placed, lane + 1, arr, current_car_id, step)

\* The loop of gen_new_drivers from `lane` on; arr[lane] is what is drawn for it.
\* A new Driver is allocated at the end of the heap.
RECURSIVE gen_new_drivers_loop(_, _, _, _, _)
gen_new_drivers_loop(m, lane, arr, current_car_id, step) ==
  IF lane > NumLanesOf(m.road) - 1 THEN [m |-> m, num_cars |-> current_car_id]
  ELSE IF ~arr[lane].arrive
  THEN gen_new_drivers_loop(m, lane + 1, arr, current_car_id, step)
  ELSE
    LET born == Driver(current_car_id, arr[lane].speed, step, arr[lane].is_human)
        ref == Len(m.drivers) + 1
        placed == set([m EXCEPT !.drivers = Append(@, born)], lane, 0, ref)
    IN gen_new_drivers_loop(placed, lane + 1, arr, current_car_id + 1, step)

gen_new_drivers(m, arr, cars, step) == gen_new_drivers_loop(m, 0, arr, cars, step)

-----------------------------------------------------------------------------
(* sim_client_requests.py: drunk drivers, crashes and self-driving lanes *)

Driver_client(car_id, speed, arrive_time, is_human, is_drunk) ==
  [id |-> car_id, desire |-> CRUISE, is_human |-> is_human, speed |-> speed,
   is_drunk |-> is_drunk,
   safe_follow |-> IF is_human THEN HUMAN_SAFE_FOLLOW ELSE SDC_SAFE_FOLLOW,
   arrive_time |-> arrive_time, final_time |-> 0, travel_time |-> 0,
   final_dist |-> 0, avg_speed |-> <<speed, 1>>]

Highway_client(length, num_def_lanes, num_sd_lanes) ==
  [lane \in 0 .. num_def_lanes + num_sd_lanes - 1 |->
     [index \in 0 .. length - 1 |-> EMPTY]]

safe_right_lane_change_client(rd, lane, i) ==
  IF lane = NUM_DEF_LANES - 1
  THEN [ret |-> FALSE, reads |-> {}, fault |-> "none"]
  ELSE lane_change_scan(rd, lane + 1, i)

safe_left_lane_change_client(rd, lane, i) ==
  IF lane = 0
  THEN [ret |-> FALSE, reads |-> {}, fault |-> "none"]
  ELSE lane_change_scan(rd, lane - 1, i)

\* The crash roll: r is the value drawn.
crash_hit(drv, r) ==
  IF drv.is_drunk THEN r < DRUNK_CRASH_PROB ELSE r < CRASH_PROB

crash_roll(m, d, r) ==
  IF m.fault # "none" THEN m
  ELSE IF crash_hit(m.drivers[d], r)
  THEN [m EXCEPT !.crashes = Append(@, m.drivers[d].speed)]
  ELSE m

\* In sim_cruise the last branch of the movement hangs on the crash roll: it is
\* the else of `if driver.is_drunk: ... elif r < CRASH_PROB: ...`.
sim_cruise_client(m, lane, i, r) ==
  IF m.fault # "none" THEN m
  ELSE
    LET d == get(m.road, lane, i)
        drv == m.drivers[d]
        x == safe_distance_within(m.road, lane, i, drv.speed + drv.safe_follow)
        moved ==
          IF x = drv.speed + drv.safe_follow
          THEN set(m, lane, i + drv.speed, d)
          ELSE IF x > drv.safe_follow
          THEN set(set_desire(m, d, LANE_CHANGE), lane, i + x - drv.safe_follow, d)
          ELSE m
        rolled ==
          IF drv.is_drunk THEN crash_roll(moved, d, r)
          ELSE IF r < CRASH_PROB THEN crash_roll(moved, d, r)
          ELSE set(set_desire(moved, d, LANE_CHANGE), lane, i + 1, d)
    IN set(rolled, lane, i, EMPTY)

choose_direction_client(m, lane, i, d, r) ==
  LET desire == m.drivers[d].desire
      left == safe_left_lane_change_client(m.road, lane, i)
      right == safe_right_lane_change_client(m.road, lane, i)
      first == IF r <= LEFT_LANE_CHANGE_PROBABILITY THEN left ELSE right
      second == IF r <= LEFT_LANE_CHANGE_PROBABILITY THEN right ELSE left
      firstDesire == IF r <= LEFT_LANE_CHANGE_PROBABILITY
                     THEN LANE_CHANGE_LEFT ELSE LANE_CHANGE_RIGHT
      secondDesire == IF r <= LEFT_LANE_CHANGE_PROBABILITY
                      THEN LANE_CHANGE_RIGHT ELSE LANE_CHANGE_LEFT
  IN IF desire # LANE_CHANGE THEN m
     ELSE IF first.fault # "none" THEN [m EXCEPT !.fault = first.fault]
     ELSE IF first.ret THEN set_desire(m, d, firstDesire)
     ELSE IF second.fault # "none" THEN [m EXCEPT !.fault = second.fault]
     ELSE IF second.ret THEN set_desire(m, d, secondDesire)
     ELSE m

change_and_cruise_client(m, lane, i, d, r) ==
  IF m.fault # "none" THEN m
  ELSE LET desire == m.drivers[d].desire
       IN IF desire = LANE_CHANGE_RIGHT
          THEN sim_cruise_client(
                 set_desire(set(set(m, lane + 1, i, d), lane, i, EMPTY), d, CRUISE),
                 lane + 1, i, r)
          ELSE IF desire = LANE_CHANGE_LEFT
          THEN sim_cruise_client(
                 set_desire(set(set(m, lane - 1, i, d), lane, i, EMPTY), d, CRUISE),
                 lane - 1, i, r)
          ELSE IF desire = CRUISE \/ desire = LANE_CHANGE
          THEN sim_cruise_client(m, lane, i, r)
          ELSE m

\* r0 is the first draw of sim_driver, r1 the draw of its crash roll, which
\* replaces r0 when the driver is not cruising, r2 the draw of sim_cruise.
sim_driver_client(m, lane, i, r0, r1, r2, step) ==
  LET d == get(m.road, lane, i)
      cruising == m.drivers[d].desire = CRUISE
      r == IF cruising THEN r0 ELSE r1
      rolled == IF cruising THEN m ELSE crash_roll(m, d, r1)
  IN IF m.drivers[d].speed + i >= LengthOf(m.road) - 1
     THEN sim_driver_exit(m, lane, i, d, step)
     ELSE change_and_cruise_client(choose_direction_client(rolled, lane, i, d, r),
                                   lane, i, d, r2)

\* What gen_new_drivers draws for a default lane: no car, or a human driver,
\* fast or slow, drunk or sober.
NoArrival_client == [arrive |-> FALSE, speed |-> FAST, is_drunk |-> FALSE]
Arrivals_client ==
  {NoArrival_client} \cup
  {[arrive |-> TRUE, speed |-> s, is_drunk |-> k] : s \in {FAST, SLOW}, k \in BOOLEAN}

\* The first loop of gen_new_drivers, over the default lanes.
RECURSIVE gen_def_drivers_loop(_, _, _, _, _)
gen_def_drivers_loop(m, lane, arr, current_car_id, step) ==
  IF lane > NUM_DEF_LANES - 1 THEN [m |-> m, num_cars |-> current_car_id]
  ELSE IF ~arr[lane].arrive
  THEN gen_def_drivers_loop(m, lane + 1, arr, current_car_id, step)
  ELSE
    LET born == Driver_client(current_car_id, arr[lane].speed, step, TRUE,
                              arr[lane].is_drunk)
        ref == Len(m.drivers) + 1
        placed == set([m EXCEPT !.drivers = Append(@, born)], lane, 0, ref)
    IN gen_def_drivers_loop(placed, lane + 1, arr, current_car_id + 1, step)

\* The second loop, over the self-driving lanes: sd[lane] says whether a car
\* arrives; it is put in lane + num_def_lanes - 1.
RECURSIVE gen_sd_drivers_loop(_, _, _, _, _)
gen_sd_drivers_loop(m, lane, sd, current_car_id, step) ==
  IF lane > NUM_SD_LANES - 1 THEN [m |-> m, num_cars |-> current_car_id]
  ELSE IF ~sd[lane]
  THEN gen_sd_drivers_loop(m, lane + 1, sd, current_car_id, step)
  ELSE
    LET born == Driver_client(current_car_id, FAST, step, FALSE, FALSE)
        ref == Len(m.drivers) + 1
        placed == set([m EXCEPT !.drivers = Append(@, born)],
                      lane + NUM_DEF_LANES - 1, 0, ref)
    IN gen_sd_drivers_loop(placed, lane + 1, sd, current_car_id + 1, step)

gen_new_drivers_client(m, arr, sd, cars, step) ==
  LET def == gen_def_drivers_loop(m, 0, arr, cars, step)
  IN gen_sd_drivers_loop(def.m, 0, sd, def.num_cars, step)

-----------------------------------------------------------------------------
(* highway_sim1.py: two lanes, LEFT and RIGHT *)

Driver_sim1(speed, arrive_time) ==
  [speed |-> speed, safe_follow |-> SAFE_FOLLOW, desire |-> CRUISE,
   arrive_time |-> arrive_time]

Highway_sim1(length) ==
  [lane \in {LEFT, RIGHT} |-> [index \in 0 .. length - 1 |-> EMPTY]]

\* road[row][i] == EMPTY and road[row][i+1] == EMPTY and road[row][i+2] == EMPTY:
\* `and` stops at the first occupied cell; a read outside the list raises IndexError.
RECURSIVE lane_change_scan_sim1(_, _, _, _)
lane_change_scan_sim1(rd, row, i, last) ==
  IF i > last THEN [ret |-> TRUE, fault |-> "none"]
  ELSE IF ~InRange(LengthOf(rd), i) THEN [ret |-> FALSE, fault |-> "IndexError"]
  ELSE IF rd[row][PyIndex(LengthOf(rd), i)] # EMPTY
  THEN [ret |-> FALSE, fault |-> "none"]
  ELSE lane_change_scan_sim1(rd, row, i + 1, last)

safe_right_lane_change_sim1(rd, i) == lane_change_scan_sim1(rd, RIGHT, i, i + 2)
safe_left_lane_change_sim1(rd, i) == lane_change_scan_sim1(rd, LEFT, i, i + 2)

\* The exit branch of sim_left_driver and sim_right_driver: the travel time is
\* what is recorded.
sim_driver_exit_sim1(m, lane, i, d, step) ==
  LET cleared == set(m, lane, i, EMPTY)
  IN [cleared EXCEPT !.data = Append(@, step - m.drivers[d].arrive_time)]

\* sim_left_driver (lane = LEFT, other = RIGHT) and sim_right_driver (lane =
\* RIGHT, other = LEFT); sim_cruise is the method of highway_sim_V2, line for line.
sim_side_driver(m, lane, other, i, step) ==
  LET d == get(m.road, lane, i)
      desire == m.drivers[d].desire
      safe == IF other = RIGHT THEN safe_right_lane_change_sim1(m.road, i)
              ELSE safe_left_lane_change_sim1(m.road, i)
  IN IF m.drivers[d].speed + i >= LengthOf(m.road) - 1
     THEN sim_driver_exit_sim1(m, lane, i, d, step)
     ELSE IF desire = LANE_CHANGE
     THEN IF safe.fault # "none" THEN [m EXCEPT !.fault = safe.fault]
          ELSE IF safe.ret
          THEN sim_cruise(set_desire(set(set(m, other, i, d), lane, i, EMPTY),
                                     d, CRUISE), other, i)
          ELSE sim_cruise(m, lane, i)
     ELSE IF desire = CRUISE THEN sim_cruise(m, lane, i)
     ELSE m

sim_right_driver(m, i, step) == sim_side_driver(m, RIGHT, LEFT, i, step)
sim_left_driver(m, i, step) == sim_side_driver(m, LEFT, RIGHT, i, step)

\* What gen_new_drivers draws for a lane: no car, a fast car or a slow one.
Arrivals_sim1 ==
  {[arrive |-> FALSE, speed |-> FAST]} \cup
  {[arrive |-> TRUE, speed |-> s] : s \in {FAST, SLOW}}

gen_lane_sim1(m, lane, arr, step) ==
  IF ~arr[lane].arrive THEN m
  ELSE set([m EXCEPT !.drivers = Append(@, Driver_sim1(arr[lane].speed, step))],
           lane, 0, Len(m.drivers) + 1)

gen_new_drivers_sim1(m, arr, step) ==
  gen_lane_sim1(gen_lane_sim1(m, LEFT, arr, step), RIGHT, arr, step)

-----------------------------------------------------------------------------
(* The sweep of execute_time_step *)

\* Cells <<i, k>> are visited from the last position i to the first and, at one
\* position, from lane k = 0 up.
AfterCell(rd, c) ==
  IF c[2] < NumLanesOf(rd) - 1 THEN <<c[1], c[2] + 1>> ELSE <<c[1] - 1, 0>>
FirstCell == <<HIGHWAY_LENGTH - 1, 0>>

\* A faulty variant of NextVisit below: the sweep stops before position 0.
RECURSIVE NextVisit_stops_early(_, _)
NextVisit_stops_early(rd, cur) ==
  IF cur[1] < 1 THEN <<-1, 0>>
  ELSE IF get(rd, cur[2], cur[1]) # EMPTY THEN cur
  ELSE NextVisit_stops_early(rd, AfterCell(rd, cur))

\* The cell the sweep visits next: the first occupied one from `cur` on, or a cell
\* before position 0 when there is none.
RECURSIVE NextVisit(_, _)
NextVisit(rd, cur) ==
  IF cur[1] < 0 THEN cur
  ELSE IF get(rd, cur[2], cur[1]) # EMPTY THEN cur
  ELSE NextVisit(rd, AfterCell(rd, cur))

Machine == [road |-> road, drivers |-> drivers, data |-> data, crashes |-> crashes,
            fault |-> "none", writes |-> <<>>]

NoCall == [op |-> "none"]

Init ==
  /\ program = "highway_sim_V2"
  /\ road = Highway(HIGHWAY_LENGTH, NUM_LANES)
  /\ drivers = <<>>
  /\ current_step = 0
  /\ num_cars = 0
  /\ data = <<>>
  /\ crashes = <<>>
  /\ pc = "run"
  /\ cursor = FirstCell
  /\ fault = "none"
  /\ writes = <<>>
  /\ start_road = Highway(HIGHWAY_LENGTH, NUM_LANES)
  /\ start_data = 0
  /\ visits = <<>>
  /\ created = {}
  /\ arrived = <<>>
  /\ call = NoCall

\* Simulation(time_steps): the number of ticks run() executes.
time_steps ==
  IF program = "sim_client_requests" THEN NUM_TIME_STEPS_client
  ELSE IF NumLanesOf(road) = 1 THEN NUM_TIME_STEPS_single
  ELSE NUM_TIME_STEPS

\* run: the loop enters execute_time_step.
BeginTimeStep ==
  /\ pc = "run"
  /\ fault = "none"
  /\ current_step < time_steps
  /\ pc' = "sweep"
  /\ cursor' = FirstCell
  /\ start_road' = road
  /\ start_data' = Len(data)
  /\ visits' = <<>>
  /\ created' = {}
  /\ writes' = <<>>
  /\ UNCHANGED <<program, road, drivers, current_step, num_cars, data, crashes,
                 fault, arrived, call>>

\* execute_time_step: the sweep reaches the next occupied cell and calls sim_driver.
SimDriver ==
  /\ program = "highway_sim_V2"
  /\ pc = "sweep"
  /\ fault = "none"
  /\ \E c \in {NextVisit(road, cursor)}, r \in RandomDraws :
       /\ c[1] >= 0
       /\ LET d == get(road, c[2], c[1]) IN
          \E m \in {sim_driver(Machine, c[2], c[1], r, current_step)} :
          /\ road' = m.road
          /\ drivers' = m.drivers
          /\ data' = m.data
          /\ crashes' = m.crashes
          /\ fault' = m.fault
          /\ writes' = m.writes
          /\ cursor' = AfterCell(road, c)
          /\ visits' = Append(visits, [ref |-> d, lane |-> c[2], pos |-> c[1],
                                       desire |-> drivers[d].desire])
  /\ UNCHANGED <<program, current_step, num_cars, pc, start_road, start_data,
                 created, arrived, call>>

\* execute_time_step: the sweep is over, gen_new_drivers runs and run() counts the tick.
GenNewDrivers ==
  /\ program = "highway_sim_V2"
  /\ pc = "sweep"
  /\ fault = "none"
  /\ NextVisit(road, cursor)[1] < 0
  /\ \E arr \in [DOMAIN road -> Arrivals] :
       /\ num_cars + Cardinality({l \in DOMAIN road : arr[l].arrive})
            <= (IF NumLanesOf(road) = 1 THEN MaxCars_single ELSE MaxCars)
       /\ \E g \in {gen_new_drivers(Machine, arr, num_cars, current_step)} :
             /\ road' = g.m.road
             /\ drivers' = g.m.drivers
             /\ fault' = g.m.fault
             /\ writes' = g.m.writes
             /\ num_cars' = g.num_cars
             /\ created' = (Len(drivers) + 1) .. Len(g.m.drivers)
             /\ arrived' = arrived \o [n \in 1 .. Len(g.m.drivers) - Len(drivers)
                                        |-> current_step]
  /\ current_step' = current_step + 1
  /\ pc' = "run"
  /\ cursor' = <<-1, 0>>
  /\ UNCHANGED <<program, data, crashes, start_road, start_data, visits, call>>

Next == BeginTimeStep \/ SimDriver \/ GenNewDrivers

Spec == Init /\ [][Next]_vars

(* highway_sim_V2.py with a road of one lane *)

Init_single_lane ==
  /\ program = "highway_sim_V2"
  /\ road = Highway(HIGHWAY_LENGTH, 1)
  /\ drivers = <<>>
  /\ current_step = 0
  /\ num_cars = 0
  /\ data = <<>>
  /\ crashes = <<>>
  /\ pc = "run"
  /\ cursor = FirstCell
  /\ fault = "none"
  /\ writes = <<>>
  /\ start_road = Highway(HIGHWAY_LENGTH, 1)
  /\ start_data = 0
  /\ visits = <<>>
  /\ created = {}
  /\ arrived = <<>>
  /\ call = NoCall

SpecSingleLane == Init_single_lane /\ [][Next]_vars

(* highway_sim_V2.py with a road of three lanes: the middle lane has a neighbour
   on either side *)

Init_three_lanes ==
  /\ program = "highway_sim_V2"
  /\ road = Highway(HIGHWAY_LENGTH, 3)
  /\ drivers = <<>>
  /\ current_step = 0
  /\ num_cars = 0
  /\ data = <<>>
  /\ crashes = <<>>
  /\ pc = "run"
  /\ cursor = FirstCell
  /\ fault = "none"
  /\ writes = <<>>
  /\ start_road = Highway(HIGHWAY_LENGTH, 3)
  /\ start_data = 0
  /\ visits = <<>>
  /\ created = {}
  /\ arrived = <<>>
  /\ call = NoCall

SpecThreeLanes == Init_three_lanes /\ [][Next]_vars

(* highway_sim_V2.py on the road of NUM_LANES lanes or on the road of one lane *)

SpecV2Roads == (Init \/ Init_single_lane) /\ [][Next]_vars

-----------------------------------------------------------------------------
(* sim_client_requests.py as a state machine *)

Init_client ==
  /\ program = "sim_client_requests"
  /\ road = Highway_client(HIGHWAY_LENGTH, NUM_DEF_LANES, NUM_SD_LANES)
  /\ drivers = <<>>
  /\ current_step = 0
  /\ num_cars = 0
  /\ data = <<>>
  /\ crashes = <<>>
  /\ pc = "run"
  /\ cursor = FirstCell
  /\ fault = "none"
  /\ writes = <<>>
  /\ start_road = Highway_client(HIGHWAY_LENGTH, NUM_DEF_LANES, NUM_SD_LANES)
  /\ start_data = 0
  /\ visits = <<>>
  /\ created = {}
  /\ arrived = <<>>
  /\ call = NoCall

SimDriver_client ==
  /\ program = "sim_client_requests"
  /\ pc = "sweep"
  /\ fault = "none"
  /\ \E c \in {NextVisit(road, cursor)}, r0 \in {0},
        r1 \in RandomDraws_client, r2 \in CruiseDraws_client :
       /\ c[1] >= 0
       /\ LET d == get(road, c[2], c[1]) IN
          \E m \in {sim_driver_client(Machine, c[2], c[1], r0, r1, r2, current_step)} :
          /\ road' = m.road
          /\ drivers' = m.drivers
          /\ data' = m.data
          /\ crashes' = m.crashes
          /\ fault' = m.fault
          /\ writes' = m.writes
          /\ cursor' = AfterCell(road, c)
          /\ visits' = Append(visits, [ref |-> d, lane |-> c[2], pos |-> c[1],
                                       desire |-> drivers[d].desire])
  /\ UNCHANGED <<program, current_step, num_cars, pc, start_road, start_data,
                 created, arrived, call>>

GenNewDrivers_client ==
  /\ program = "sim_client_requests"
  /\ pc = "sweep"
  /\ fault = "none"
  /\ NextVisit(road, cursor)[1] < 0
  /\ \E arr \in [0 .. NUM_DEF_LANES - 1 -> Arrivals_client],
        sd \in [0 .. NUM_SD_LANES - 1 -> BOOLEAN] :
       /\ num_cars + Cardinality({l \in DOMAIN arr : arr[l].arrive})
                   + Cardinality({l \in DOMAIN sd : sd[l]}) <= MaxCars_client
       /\ \E g \in {gen_new_drivers_client(Machine, arr, sd, num_cars, current_step)} :
             /\ road' = g.m.road
             /\ drivers' = g.m.drivers
             /\ fault' = g.m.fault
             /\ writes' = g.m.writes
             /\ num_cars' = g.num_cars
             /\ created' = (Len(drivers) + 1) .. Len(g.m.drivers)
             /\ arrived' = arrived \o [n \in 1 .. Len(g.m.drivers) - Len(drivers)
                                        |-> current_step]
  /\ current_step' = current_step + 1
  /\ pc' = "run"
  /\ cursor' = <<-1, 0>>
  /\ UNCHANGED <<program, data, crashes, start_road, start_data, visits, call>>

Next_client == BeginTimeStep \/ SimDriver_client \/ GenNewDrivers_client

SpecClient == Init_client /\ [][Next_client]_vars

(* highway_sim1.py as a state machine *)

Init_sim1 ==
  /\ program = "highway_sim1"
  /\ road = Highway_sim1(HIGHWAY_LENGTH)
  /\ drivers = <<>>
  /\ current_step = 0
  /\ num_cars = 0
  /\ data = <<>>
  /\ crashes = <<>>
  /\ pc = "run"
  /\ cursor = FirstCell
  /\ fault = "none"
  /\ writes = <<>>
  /\ start_road = Highway_sim1(HIGHWAY_LENGTH)
  /\ start_data = 0
  /\ visits = <<>>
  /\ created = {}
  /\ arrived = <<>>
  /\ call = NoCall

SimDriver_sim1 ==
  /\ program = "highway_sim1"
  /\ pc = "sweep"
  /\ fault = "none"
  /\ \E c \in {NextVisit(road, cursor)} :
       /\ c[1] >= 0
       /\ LET d == get(road, c[2], c[1]) IN
          \E m \in {IF c[2] = LEFT THEN sim_left_driver(Machine, c[1], current_step)
                     ELSE sim_right_driver(Machine, c[1], current_step)} :
          /\ road' = m.road
          /\ drivers' = m.drivers
          /\ data' = m.data
          /\ fault' = m.fault
          /\ writes' = m.writes
          /\ cursor' = AfterCell(road, c)
          /\ visits' = Append(visits, [ref |-> d, lane |-> c[2], pos |-> c[1],
                                       desire |-> drivers[d].desire])
  /\ UNCHANGED <<program, current_step, num_cars, crashes, pc, start_road,
                 start_data, created, arrived, call>>

GenNewDrivers_sim1 ==
  /\ program = "highway_sim1"
  /\ pc = "sweep"
  /\ fault = "none"
  /\ NextVisit(road, cursor)[1] < 0
  /\ \E arr \in [{LEFT, RIGHT} -> Arrivals_sim1] :
       /\ Len(drivers) + Cardinality({l \in {LEFT, RIGHT} : arr[l].arrive}) <= MaxCars
       /\ \E m \in {gen_new_drivers_sim1(Machine, arr, current_step)} :
             /\ road' = m.road
             /\ drivers' = m.drivers
             /\ fault' = m.fault
             /\ writes' = m.writes
             /\ created' = (Len(drivers) + 1) .. Len(m.drivers)
             /\ arrived' = arrived \o [n \in 1 .. Len(m.drivers) - Len(drivers)
                                        |-> current_step]
  /\ current_step' = current_step + 1
  /\ pc' = "run"
  /\ cursor' = <<-1, 0>>
  /\ UNCHANGED <<program, num_cars, data, crashes, start_road, start_data, visits,
                 call>>

Next_sim1 == BeginTimeStep \/ SimDriver_sim1 \/ GenNewDrivers_sim1

Spec_sim1 == Init_sim1 /\ [][Next_sim1]_vars

(* highway_sim_V2 and highway_sim1 *)

SpecV2Sim1 == (Init \/ Init_sim1) /\ [][Next \/ Next_sim1]_vars

(* Both programs *)

SpecBoth == (Init \/ Init_client) /\ [][Next \/ Next_client]_vars

-----------------------------------------------------------------------------
(* Direct calls of the methods of Highway, on any road: one call a behaviour *)

\* The roads of the calls: CallLanes lanes of CallLength cells, of which at most
\* MaxOccupied hold a driver.
CallLanes == 0 .. NumCallLanes - 1
CallPositions == 0 .. CallLength - 1

RECURSIVE OccupiedSets(_)
OccupiedSets(n) ==
  IF n = 0 THEN {{}}
  ELSE LET fewer == OccupiedSets(n - 1)
       IN fewer \cup {S \cup {c} : S \in fewer, c \in CallLanes \X CallPositions}

RoadWith(S) ==
  [lane \in CallLanes |->
     [index \in CallPositions |-> IF <<lane, index>> \in S THEN 1 ELSE EMPTY]]

\* The largest window safe_distance_within is called with by sim_cruise.
MaxWindow == FAST + HUMAN_SAFE_FOLLOW

Init_calls ==
  /\ program = "calls"
  /\ \E S \in OccupiedSets(MaxOccupied) : road = RoadWith(S)
  /\ drivers = <<Driver(0, FAST, 0, TRUE)>>
  /\ current_step = 0
  /\ num_cars = 0
  /\ data = <<>>
  /\ crashes = <<>>
  /\ pc = "calls"
  /\ cursor = <<-1, 0>>
  /\ fault = "none"
  /\ writes = <<>>
  /\ start_road = road
  /\ start_data = 0
  /\ visits = <<>>
  /\ created = {}
  /\ arrived = <<0>>
  /\ call = NoCall

CallFrame == <<program, road, drivers, current_step, num_cars, data, crashes, pc,
               cursor, fault, writes, start_road, start_data, visits, created,
               arrived>>

Call_safe_distance_within ==
  /\ program = "calls"
  /\ call = NoCall
  /\ \E lane \in CallLanes, index \in CallPositions, k \in 0 .. MaxWindow :
       \E res \in {safe_distance_scan(road, lane, index, k)} :
         call' = [op |-> "safe_distance_within", lane |-> lane, index |-> index,
                  k |-> k, ret |-> res.ret, reads |-> res.reads]
  /\ UNCHANGED CallFrame

Call_safe_right_lane_change ==
  /\ program = "calls"
  /\ call = NoCall
  /\ \E lane \in CallLanes, index \in CallPositions :
       \E res \in {safe_right_lane_change(road, lane, index)} :
         call' = [op |-> "safe_right_lane_change", lane |-> lane, index |-> index,
                  ret |-> res.ret, reads |-> res.reads, fault |-> res.fault]
  /\ UNCHANGED CallFrame

Call_safe_left_lane_change ==
  /\ program = "calls"
  /\ call = NoCall
  /\ \E lane \in CallLanes, index \in CallPositions :
       \E res \in {safe_left_lane_change(road, lane, index)} :
         call' = [op |-> "safe_left_lane_change", lane |-> lane, index |-> index,
                  ret |-> res.ret, reads |-> res.reads, fault |-> res.fault]
  /\ UNCHANGED CallFrame

Next_calls ==
  \/ Call_safe_distance_within
  \/ Call_safe_right_lane_change
  \/ Call_safe_left_lane_change

SpecCalls == Init_calls /\ [][Next_calls]_vars

(* The lane-change checks called on any road, and highway_sim_V2 running *)

Next_lane_change_calls == Call_safe_right_lane_change \/ Call_safe_left_lane_change

SpecCallsV2 == (Init_calls \/ Init) /\ [][Next_lane_change_calls \/ Next]_vars

(* The lane-change checks of sim_client_requests.Highway called directly, on a
   road of NUM_DEF_LANES + NUM_SD_LANES lanes holding at most one driver *)

ClientCallLanes == 0 .. NUM_DEF_LANES + NUM_SD_LANES - 1

Init_calls_client ==
  /\ program = "client_calls"
  /\ \E S \in {{}} \cup {{c} : c \in ClientCallLanes \X CallPositions} :
       road = [lane \in ClientCallLanes |->
                 [index \in CallPositions |->
                    IF <<lane, index>> \in S THEN 1 ELSE EMPTY]]
  /\ drivers = <<Driver_client(0, FAST, 0, TRUE, FALSE)>>
  /\ current_step = 0
  /\ num_cars = 0
  /\ data = <<>>
  /\ crashes = <<>>
  /\ pc = "calls"
  /\ cursor = <<-1, 0>>
  /\ fault = "none"
  /\ writes = <<>>
  /\ start_road = road
  /\ start_data = 0
  /\ visits = <<>>
  /\ created = {}
  /\ arrived = <<0>>
  /\ call = NoCall

Call_safe_right_lane_change_client ==
  /\ program = "client_calls"
  /\ call = NoCall
  /\ \E lane \in ClientCallLanes, index \in CallPositions :
       \E res \in {safe_right_lane_change_client(road, lane, index)} :
         call' = [op |-> "safe_right_lane_change", lane |-> lane, index |-> index,
                  ret |-> res.ret, reads |-> res.reads, fault |-> res.fault]
  /\ UNCHANGED CallFrame

Call_safe_left_lane_change_client ==
  /\ program = "client_calls"
  /\ call = NoCall
  /\ \E lane \in ClientCallLanes, index \in CallPositions :
       \E res \in {safe_left_lane_change_client(road, lane, index)} :
         call' = [op |-> "safe_left_lane_change", lane |-> lane, index |-> index,
                  ret |-> res.ret, reads |-> res.reads, fault |-> res.fault]
  /\ UNCHANGED CallFrame

Next_calls_client ==
  Call_safe_right_lane_change_client \/ Call_safe_left_lane_change_client

SpecCallsClient == Init_calls_client /\ [][Next_calls_client]_vars

-----------------------------------------------------------------------------
(* What the properties below speak of *)

\* A tick has just ended: execute_time_step returned and run() counted it.
EndOfTick == pc = "run" /\ current_step > 0

GridCells(rd) == (DOMAIN rd) \X (DOMAIN rd[0])
Occupied(rd) == {c \in GridCells(rd) : rd[c[1]][c[2]] # EMPTY}
OnGrid(rd) == {rd[c[1]][c[2]] : c \in Occupied(rd)}
CellsOf(rd, d) == {c \in GridCells(rd) : rd[c[1]][c[2]] = d}
LaneOf(rd, d) == (CHOOSE c \in CellsOf(rd, d) : TRUE)[1]
PosOf(rd, d) == (CHOOSE c \in CellsOf(rd, d) : TRUE)[2]
IdsOf(refs) == {drivers[d].id : d \in refs}

\* The exit records appended since the tick began, and the ids in all records.
NewRecords == {data[n] : n \in start_data + 1 .. Len(data)}
ExitedIds == {data[n].id : n \in 1 .. Len(data)}
VisitsOf(d) == {n \in 1 .. Len(visits) : visits[n].ref = d}

\* The state just after a sim_driver call, and the visit it made.
AfterSimDriver == pc = "sweep" /\ Len(visits) > 0
LastVisit == visits[Len(visits)]
WillExit(v) == drivers[v.ref].speed + v.pos >= LengthOf(road) - 1

\* What the exit of driver d appends to data.
ExitRecordOf(d) ==
  IF program = "highway_sim1" THEN current_step - drivers[d].arrive_time
  ELSE output_data(drivers[d])

IsLaneChangeCall == call.op \in {"safe_left_lane_change", "safe_right_lane_change"}
Neighbour == IF call.op = "safe_left_lane_change" THEN call.lane - 1 ELSE call.lane + 1
Outward ==
  \/ call.op = "safe_left_lane_change" /\ call.lane = 0
  \/ call.op = "safe_right_lane_change" /\ call.lane = NumLanesOf(road) - 1
Window == call.index - LANE_CHANGE_SAFE_BACK .. call.index + LANE_CHANGE_SAFE_FORWARD

-----------------------------------------------------------------------------
(* C1 .. C10 *)

\* C1: in highway_sim_V2, after every execute_time_step no vehicle is in two
\* cells, the vehicles on the grid are exactly those that have arrived and have
\* not exited (so no vehicle lost its cell to another), and the ids on the grid
\* are the ids on the grid before the tick, with those created in the tick,
\* without those recorded as exited in the tick.
C1_Occupancy ==
  EndOfTick =>
    LET occupied == Occupied(road)
        grid == {road[c[1]][c[2]] : c \in occupied}
        exited == ExitedIds
    IN \* no vehicle is in two cells
       /\ Cardinality(occupied) = Cardinality(grid)
       \* the vehicles on the grid are those that arrived and have not exited
       /\ grid = {d \in 1 .. Len(drivers) : drivers[d].id \notin exited}
       /\ IdsOf(grid) =
            (IdsOf(OnGrid(start_road)) \cup IdsOf(created)) \ {r.id : r \in NewRecords}

C1_Witness ==
  /\ program = "highway_sim_V2"
  /\ EndOfTick
  /\ created # {}
  /\ NewRecords # {}
  /\ \E d \in OnGrid(start_road) \cap OnGrid(road) : LaneOf(road, d) # LaneOf(start_road, d)

\* C2 (as claimed): in sim_client_requests, after every execute_time_step no
\* vehicle is in two cells and every vehicle that has not exited is on the grid.
C2_OneCellPerVehicle ==
  (program = "sim_client_requests" /\ EndOfTick) =>
    \A d \in 1 .. Len(drivers) :
      /\ Cardinality(CellsOf(road, d)) <= 1
      /\ drivers[d].id \notin ExitedIds => CellsOf(road, d) # {}

\* C3: in highway_sim_V2, a vehicle on the grid at the start and at the end of a
\* tick has advanced by at least 1 and at most its speed, lane change or not.
C3_Advance ==
  EndOfTick =>
    \A c \in Occupied(road), c0 \in Occupied(start_road) :
      road[c[1]][c[2]] = start_road[c0[1]][c0[2]] =>
        /\ c[2] - c0[2] >= 1
        /\ c[2] - c0[2] <= drivers[road[c[1]][c[2]]].speed

C3_Witness ==
  /\ program = "highway_sim_V2"
  /\ EndOfTick
  /\ \E d \in OnGrid(start_road) \cap OnGrid(road) :
       /\ LaneOf(road, d) # LaneOf(start_road, d)
       /\ PosOf(road, d) > PosOf(start_road, d)

\* C4 (as claimed): every vehicle on the grid at the start of a tick is processed
\* by sim_driver exactly once in that tick.
C4_ProcessedOnce ==
  EndOfTick => \A d \in OnGrid(start_road) : Cardinality(VisitsOf(d)) = 1

\* C5: a vehicle processed at pos with pos + speed >= length - 1 is removed: the
\* only write of the call clears its cell, its desire is untouched and its record
\* is appended (one record for each such vehicle of the tick); any other
\* processed vehicle is still on the grid after the call.  At the end of a tick
\* every vehicle is at a position <= length - 2, and every write of a move is to
\* a cell of the road.
C5_Exit ==
  /\ AfterSimDriver =>
       /\ Len(data) - start_data =
            Cardinality({n \in 1 .. Len(visits) : WillExit(visits[n])})
       /\ IF WillExit(LastVisit)
          THEN /\ writes = <<[lane |-> LastVisit.lane, index |-> LastVisit.pos,
                              value |-> EMPTY]>>
               /\ LastVisit.ref \notin OnGrid(road)
               /\ drivers[LastVisit.ref].desire = LastVisit.desire
               /\ data[Len(data)] = ExitRecordOf(LastVisit.ref)
          ELSE LastVisit.ref \in OnGrid(road)
  /\ EndOfTick => \A c \in Occupied(road) : c[2] <= LengthOf(road) - 2
  /\ \A n \in 1 .. Len(writes) :
       writes[n].index \in DOMAIN road[0] /\ writes[n].lane \in DOMAIN road
  /\ fault = "none"

C5_Witness ==
  /\ program = "highway_sim_V2"
  /\ AfterSimDriver
  /\ WillExit(LastVisit)
  /\ OnGrid(road) # {}

\* C6: every exit record has final_time = the tick of the exit, travel_time =
\* final_time - the tick of the arrival, final_dist = the length of the road and
\* avg_speed * travel_time = the length of the road (avg_speed is kept as the
\* fraction final_dist / travel_time); travel_time >= 1 and no division by zero.
C6_ExitRecord ==
  /\ fault # "ZeroDivisionError"
  /\ \A n \in 1 .. Len(data) :
       /\ data[n].arrive_time = arrived[data[n].id + 1]
       /\ data[n].travel_time = data[n].final_time - arrived[data[n].id + 1]
       /\ data[n].travel_time >= 1
       /\ data[n].final_dist = HIGHWAY_LENGTH
       /\ data[n].avg_speed[1] * data[n].travel_time = HIGHWAY_LENGTH * data[n].avg_speed[2]
  /\ \A r \in NewRecords :
       r.final_time = IF pc = "sweep" THEN current_step ELSE current_step - 1

C6_Witness ==
  /\ pc = "sweep"
  /\ \E r \in NewRecords : r.travel_time >= 2 /\ r.arrive_time >= 1

\* C7: safe_distance_within(lane, pos, k) returns x with 0 <= x <= k; when a cell
\* of pos+1 .. pos+k inside the road is occupied, x is the number of cells
\* between pos and the nearest one; otherwise x = k; no cell outside the road is
\* read.
C7_SafeDistance ==
  call.op = "safe_distance_within" =>
    LET occupied == {j \in call.index + 1 .. call.index + call.k :
                       j < LengthOf(road) /\ road[call.lane][j] # EMPTY}
    IN /\ 0 <= call.ret /\ call.ret <= call.k
       /\ occupied # {} =>
            \E j \in occupied : /\ \A o \in occupied : j <= o
                                /\ call.ret = j - call.index - 1
       /\ occupied = {} => call.ret = call.k
       /\ call.reads \subseteq DOMAIN road[call.lane]

C7_Witness ==
  /\ call.op = "safe_distance_within"
  /\ call.ret > 0 /\ call.ret < call.k
  /\ Cardinality({j \in call.index + 1 .. call.index + call.k :
                    j < LengthOf(road) /\ road[call.lane][j] # EMPTY}) = 2

C9_Boundary ==
  /\ (IsLaneChangeCall /\ Outward) =>
       ~call.ret /\ call.reads = {} /\ call.fault = "none"
  /\ \A n \in 1 .. Len(writes) : writes[n].lane \in DOMAIN road
  /\ fault = "none"

C9_Witness ==
  /\ IsLaneChangeCall
  /\ Outward
  /\ ~call.ret
  /\ LANE_CHANGE_SAFE_BACK <= call.index
  /\ call.index + LANE_CHANGE_SAFE_FORWARD <= LengthOf(road) - 1
  /\ OnGrid(road) = {}

\* C10 (as claimed): the lane-change check is false at every pos < B, on every
\* road, and consults no cell at the end of the road in place of the cells
\* behind position 0.
C10_BehindStart ==
  (IsLaneChangeCall /\ call.index < LANE_CHANGE_SAFE_BACK) =>
    /\ ~call.ret
    /\ \A c \in call.reads : c[2] <= call.index + LANE_CHANGE_SAFE_FORWARD

-----------------------------------------------------------------------------
(* C11 .. C20 *)

\* C11 (as claimed): for a lane with a neighbour on the side asked, B <= pos and
\* pos + F > length - 1, the lane-change check raises nothing and is true when
\* the cells of pos-B .. pos+F that are on the road are empty in the neighbour lane.
C11_AheadPastEnd ==
  (/\ IsLaneChangeCall
   /\ ~Outward
   /\ LANE_CHANGE_SAFE_BACK <= call.index
   /\ call.index + LANE_CHANGE_SAFE_FORWARD > LengthOf(road) - 1) =>
    /\ call.fault = "none"
    /\ (\A j \in Window \cap DOMAIN road[0] : road[Neighbour][j] = EMPTY) => call.ret

\* C12: in highway_sim_V2 and highway_sim1, when gen_new_drivers runs at the end
\* of a tick cell 0 of every lane is empty; it writes to cells 0 only, the
\* vehicles it puts there are the ones it created, and every other cell is as
\* it was: no vehicle is lost to an arrival.
C12_ArrivalCellEmpty ==
  [][(pc = "sweep" /\ pc' = "run") =>
       /\ \A l \in DOMAIN road : road[l][0] = EMPTY
       /\ \A l \in DOMAIN road : road'[l][0] \in created' \cup {EMPTY}
       /\ \A c \in GridCells(road) : c[2] > 0 => road'[c[1]][c[2]] = road[c[1]][c[2]]
       /\ OnGrid(road') = OnGrid(road) \cup created'
       /\ fault' = "none"]_vars

C12_Witness ==
  /\ program \in {"highway_sim_V2", "highway_sim1"}
  /\ EndOfTick
  /\ \E l \in DOMAIN road : start_road[l][0] # EMPTY /\ road[l][0] \in created

\* C13 (as claimed): in sim_client_requests, for the vehicle sim_driver is about
\* to process, the executions that differ only in the incident rolls (of
\* sim_driver and of sim_cruise) and in the is_drunk flag of the vehicle, with
\* the direction draw on the same side of its threshold, end with the same grid
\* and the same desires.
C13_IncidentRollPure ==
  (program = "sim_client_requests" /\ pc = "sweep" /\ fault = "none") =>
    LET c == NextVisit(road, cursor)
    IN c[1] >= 0 =>
         LET d == road[c[2]][c[1]]
             run(b, r1, r2) ==
               sim_driver_client([Machine EXCEPT !.drivers[d].is_drunk = b],
                                 c[2], c[1], 0, r1, r2, current_step)
             view(m) == <<m.road, [k \in DOMAIN m.drivers |-> m.drivers[k].desire]>>
             views(side) ==
               {view(run(b, r1, r2)) : b \in BOOLEAN, r1 \in side,
                                       r2 \in CruiseDraws_client}
             left == {r \in RandomDraws_client : r <= LEFT_LANE_CHANGE_PROBABILITY}
         IN /\ Cardinality(views(left)) = 1
            /\ Cardinality(views(RandomDraws_client \ left)) = 1

\* C14 (as claimed): in sim_client_requests a sim_driver call appends to the crash
\* log only if the desire of the vehicle was not Cruise when the call began.
C14_IncidentsOnlyWhenBlocked ==
  [][(program = "sim_client_requests" /\ Len(crashes') > Len(crashes)) =>
       visits'[Len(visits')].desire # CRUISE]_vars

\* C15: in highway_sim_V2 on a road of one lane, a desire that is Lane Change
\* stays Lane Change in every later state (the exit does not touch it); for
\* every vehicle on the grid both direction checks are false and raise nothing;
\* no exception is raised; the occupancy invariant of C1 holds after every tick.
C15_SingleLane ==
  /\ [](/\ fault = "none"
        /\ \A c \in Occupied(road) :
             /\ safe_left_lane_change(road, c[1], c[2]) =
                  [ret |-> FALSE, reads |-> {}, fault |-> "none"]
             /\ safe_right_lane_change(road, c[1], c[2]) =
                  [ret |-> FALSE, reads |-> {}, fault |-> "none"]
        /\ \A n \in 1 .. Len(writes) : writes[n].lane = 0
        /\ C1_Occupancy)
  /\ [][\A d \in 1 .. Len(drivers) :
          drivers[d].desire = LANE_CHANGE => drivers'[d].desire = LANE_CHANGE]_vars

C15_Witness ==
  /\ NumLanesOf(road) = 1
  /\ EndOfTick
  /\ \E n \in 1 .. Len(visits) :
       /\ visits[n].desire = LANE_CHANGE
       /\ visits[n].ref \in OnGrid(road)
       /\ drivers[visits[n].ref].desire = LANE_CHANGE

\* The step is a call of sim_driver; v is the visit it makes.
IsSimDriverStep == Len(visits') = Len(visits) + 1
AloneInLane(rd, lane, pos) ==
  \A j \in DOMAIN rd[lane] : rd[lane][j] # EMPTY => j = pos

\* Two ticks of a lone driver on a road of 10 cells: speed 5, follow distance 4,
\* from position 0.
C16_ExampleStart ==
  set([road |-> Highway(10, 1), drivers |-> <<Driver(0, FAST, 0, TRUE)>>,
       data |-> <<>>, crashes |-> <<>>, fault |-> "none", writes |-> <<>>],
      0, 0, 1)
C16_ExampleTick1 == sim_driver(C16_ExampleStart, 0, 0, LEFT_LANE_CHANGE_PROBABILITY, 1)
C16_ExampleTick2 == sim_driver(C16_ExampleTick1, 0, 5, LEFT_LANE_CHANGE_PROBABILITY, 2)

\* C16: in highway_sim_V2 a driver with desire Cruise that is alone in its lane
\* leaves the road when pos + speed >= road length - 1 and otherwise moves exactly
\* speed cells in its lane and keeps desire Cruise, also when pos + speed + follow
\* is past the end of the road.  On a road of 10 cells a driver of speed 5 and
\* follow distance 4 at position 0 is at position 5 after one tick and exits in
\* the next.
C16_LoneCruise ==
  [][/\ CellsOf(C16_ExampleTick1.road, 1) = {<<0, 5>>}
     /\ C16_ExampleTick1.drivers[1].desire = CRUISE
     /\ C16_ExampleTick1.data = <<>>
     /\ Occupied(C16_ExampleTick2.road) = {}
     /\ Len(C16_ExampleTick2.data) = 1
     /\ C16_ExampleTick2.fault = "none"
     /\ (program = "highway_sim_V2" /\ IsSimDriverStep) =>
          LET v == visits'[Len(visits')]
              drv == drivers[v.ref]
          IN (v.desire = CRUISE /\ AloneInLane(road, v.lane, v.pos)) =>
               /\ fault' = "none"
               /\ IF v.pos + drv.speed >= LengthOf(road) - 1
                  THEN /\ v.ref \notin OnGrid(road')
                       /\ Len(data') = Len(data) + 1
                       /\ data'[Len(data')].id = drv.id
                  ELSE /\ CellsOf(road', v.ref) = {<<v.lane, v.pos + drv.speed>>}
                       /\ drivers'[v.ref].desire = CRUISE
                       /\ data' = data]_vars

\* A lone cruising driver has moved at full speed although the cells it looks at
\* end past the road.
C16_Witness ==
  /\ program = "highway_sim_V2"
  /\ AfterSimDriver
  /\ LastVisit.desire = CRUISE
  /\ LET drv == drivers[LastVisit.ref] IN
       /\ LastVisit.pos + drv.speed + drv.safe_follow > LengthOf(road) - 1
       /\ LastVisit.pos + drv.speed < LengthOf(road) - 1
       /\ road[LastVisit.lane][LastVisit.pos + drv.speed] = LastVisit.ref
       /\ AloneInLane(road, LastVisit.lane, LastVisit.pos + drv.speed)
       /\ drv.desire = CRUISE

\* The fields of a driver that __init__ sets once, and those of its exit record.
CreationFields(drv) ==
  <<drv.id, drv.speed, drv.safe_follow, drv.is_human, drv.arrive_time>>
RecordFields(drv) ==
  <<drv.final_time, drv.travel_time, drv.final_dist, drv.avg_speed>>

\* C17: in every step of highway_sim_V2 each driver keeps id, speed, safe_follow,
\* is_human and arrive_time; a driver that is on the road after the step differs
\* from before in its desire at most; final_time, travel_time, final_dist and
\* avg_speed change only in the step in which the driver leaves the road; a driver
\* that has left is not changed again; a new driver has the values of __init__.
C17_Frame ==
  [][program = "highway_sim_V2" =>
       /\ \A d \in 1 .. Len(drivers) :
            /\ CreationFields(drivers'[d]) = CreationFields(drivers[d])
            /\ d \in OnGrid(road') =>
                 drivers'[d] = [drivers[d] EXCEPT !.desire = drivers'[d].desire]
            /\ RecordFields(drivers'[d]) # RecordFields(drivers[d]) =>
                 d \in OnGrid(road) /\ d \notin OnGrid(road')
            /\ d \notin OnGrid(road) => drivers'[d] = drivers[d]
       /\ \A d \in Len(drivers) + 1 .. Len(drivers') :
            /\ d \in OnGrid(road')
            /\ drivers'[d] = Driver(d - 1, drivers'[d].speed, current_step,
                                    drivers'[d].is_human)]_vars

\* In one tick a driver has left the road with its record written, and another,
\* still on the road, has moved and changed its desire.
C17_Witness ==
  /\ program = "highway_sim_V2"
  /\ AfterSimDriver
  /\ \E d \in 1 .. Len(drivers) :
       /\ d \notin OnGrid(road)
       /\ drivers[d].final_time = current_step
       /\ drivers[d].travel_time > 0
  /\ \E n \in 1 .. Len(visits) :
       /\ visits[n].ref \in OnGrid(road)
       /\ visits[n].desire = CRUISE
       /\ drivers[visits[n].ref].desire = LANE_CHANGE
       /\ PosOf(road, visits[n].ref) > visits[n].pos

\* C18: in highway_sim_V2 and sim_client_requests the drivers ever created have
\* the ids 0, 1, 2, ... in the order of their creation, so no two of them have the
\* same id; num_cars is the number of drivers created so far, never decreases and
\* grows in a step by the number of drivers the step creates; every exit record
\* carries the id of a driver that was created.
C18_Ids ==
  [][/\ \A d \in 1 .. Len(drivers') : drivers'[d].id = d - 1
     /\ \A d, e \in 1 .. Len(drivers') : d # e => drivers'[d].id # drivers'[e].id
     /\ \A d \in OnGrid(road') : d \in 1 .. Len(drivers')
     /\ \A n \in 1 .. Len(data') : \E d \in 1 .. Len(drivers') : data'[n].id = drivers'[d].id
     /\ num_cars' = Len(drivers')
     /\ num_cars' >= num_cars
     /\ num_cars' - num_cars = Len(drivers') - Len(drivers)
     /\ pc' = "run" /\ pc = "sweep" => num_cars' - num_cars = Cardinality(created')]_vars

\* Two drivers were created in one tick after earlier ones, one of which has left
\* the road.
C18_Witness ==
  /\ EndOfTick
  /\ Cardinality(created) >= 2
  /\ Len(drivers) > Cardinality(created)
  /\ Len(data) >= 1
  /\ num_cars = Len(drivers)

\* The road after the first n of the writes ws of a step, from the road rd.
RECURSIVE RoadAfter(_, _, _)
RoadAfter(rd, ws, n) ==
  IF n = 0 THEN rd
  ELSE LET w == ws[n]
           before == RoadAfter(rd, ws, n - 1)
       IN [before EXCEPT ![PyIndex(NumLanesOf(rd), w.lane)]
                          [PyIndex(LengthOf(rd), w.index)] = w.value]

\* C19: no call of Highway.set that a step makes puts a driver into a cell that
\* holds another driver at the time of the call: such a call would have to raise
\* an error and leave the road as it was.
C19_NoSilentOverwrite ==
  [][\A n \in 1 .. Len(writes') :
       LET w == writes'[n]
           before == RoadAfter(road, writes', n - 1)
           held == before[PyIndex(NumLanesOf(road), w.lane)]
                         [PyIndex(LengthOf(road), w.index)]
       IN w.value # EMPTY => held \in {EMPTY, w.value}]_vars

\* The empty cells ahead of position pos in lane `lane` of rd up to the first
\* occupied one, k when the k cells ahead are empty or end past the road.
ClearAhead(rd, lane, pos, k) ==
  LET taken == {j \in pos + 1 .. pos + k : j \in DOMAIN rd[lane] /\ rd[lane][j] # EMPTY}
  IN IF taken = {} THEN k
     ELSE (CHOOSE j \in taken : \A h \in taken : j <= h) - pos - 1

\* The lane sim_cruise was called for in the step: that of its last write.
CruiseLane == writes'[Len(writes')].lane

\* sim_cruise for a follower at 0 (speed 5, follow distance 4) behind a car at 6.
C20_ExampleStart ==
  set(set([road |-> Highway(HIGHWAY_LENGTH, 1),
           drivers |-> <<Driver(0, SLOW, 0, TRUE), Driver(1, FAST, 1, TRUE)>>,
           data |-> <<>>, crashes |-> <<>>, fault |-> "none", writes |-> <<>>],
          0, 6, 1), 0, 0, 2)
C20_ExampleMove == sim_cruise(C20_ExampleStart, 0, 0)

\* C20: a call of sim_driver of highway_sim_V2 or highway_sim1 that does not end
\* in the exit moves the driver by sim_cruise in lane c, its own or the one it
\* changed to.  With k = speed + safe_follow and x the clear cells ahead in c:
\* x = k moves it speed cells and leaves the desire it had on entry; x > safe_follow
\* moves it x - safe_follow cells, otherwise x >= 1 and it moves one cell, and the
\* desire becomes LaneChangeWanted.  The driver ends in the one cell of lane c it
\* moved to, which was empty before the call, and the cell it left is empty.
\* A follower at 0 (speed 5, follow 4) behind a car at 6 has x = 5, moves to 1 and
\* wants a lane change.
C20_CruiseMove ==
  [][/\ safe_distance_within(C20_ExampleStart.road, 0, 0, FAST + HUMAN_SAFE_FOLLOW) = 5
     /\ CellsOf(C20_ExampleMove.road, 2) = {<<0, 1>>}
     /\ C20_ExampleMove.drivers[2].desire = LANE_CHANGE
     /\ (program \in {"highway_sim_V2", "highway_sim1"} /\ IsSimDriverStep) =>
          LET v == visits'[Len(visits')]
              drv == drivers[v.ref]
              k == drv.speed + drv.safe_follow
          IN v.pos + drv.speed < LengthOf(road) - 1 =>
               LET c == CruiseLane
                   x == ClearAhead(road, c, v.pos, k)
                   entry == IF c = v.lane THEN v.desire ELSE CRUISE
                   adv == IF x = k THEN drv.speed
                          ELSE IF x > drv.safe_follow THEN x - drv.safe_follow
                          ELSE 1
               IN /\ fault' = "none"
                  /\ x <= drv.safe_follow => x >= 1
                  /\ adv >= 1
                  /\ road[c][v.pos + adv] = EMPTY
                  /\ CellsOf(road', v.ref) = {<<c, v.pos + adv>>}
                  /\ road'[v.lane][v.pos] = EMPTY
                  /\ drivers'[v.ref].desire = (IF x = k THEN entry ELSE LANE_CHANGE)
                  /\ \A e \in GridCells(road) :
                       e \notin {<<v.lane, v.pos>>, <<c, v.pos + adv>>} =>
                         road'[e[1]][e[2]] = road[e[1]][e[2]]]_vars

\* A driver with at most safe_follow clear cells ahead has moved one cell.
C20_Witness ==
  /\ program \in {"highway_sim_V2", "highway_sim1"}
  /\ AfterSimDriver
  /\ LastVisit.pos + 1 \in DOMAIN road[0]
  /\ \E l \in DOMAIN road :
       LET d == LastVisit.ref IN
         /\ CellsOf(road, d) = {<<l, LastVisit.pos + 1>>}
         /\ drivers[d].desire = LANE_CHANGE
         /\ ClearAhead(road, l, LastVisit.pos + 1, drivers[d].safe_follow)
              < drivers[d].safe_follow

-----------------------------------------------------------------------------
(* C21 .. C29 *)

\* The lane step a call of sim_driver has to make for a driver of desire `desire`
\* at <<lane, pos>> of rd with the draw r: -1 left, 1 right, 0 none.
DirectionFor(rd, lane, pos, desire, r) ==
  LET left == safe_left_lane_change(rd, lane, pos).ret
      right == safe_right_lane_change(rd, lane, pos).ret
  IN IF desire # LANE_CHANGE THEN 0
     ELSE IF r <= LEFT_LANE_CHANGE_PROBABILITY
     THEN (IF left THEN -1 ELSE IF right THEN 1 ELSE 0)
     ELSE (IF right THEN 1 ELSE IF left THEN -1 ELSE 0)

\* C21: in highway_sim_V2, for the driver the sweep is about to process and that
\* does not exit, and for every draw r: a driver of desire Lane Change goes left
\* if r <= LEFT_LANE_CHANGE_PROBABILITY and the left check passes on the road as
\* it is, otherwise right if the right check passes, otherwise it stays in its
\* lane and keeps desire Lane Change; with r above the threshold the right check
\* comes first.  A driver of desire Cruise stays in its lane.
C21_Direction ==
  (program = "highway_sim_V2" /\ pc = "sweep" /\ fault = "none") =>
    LET c == NextVisit(road, cursor)
    IN c[1] >= 0 =>
         LET d == road[c[2]][c[1]]
             drv == drivers[d]
         IN c[1] + drv.speed < LengthOf(road) - 1 =>
              \A r \in RandomDraws :
                LET m == sim_driver(Machine, c[2], c[1], r, current_step)
                    dir == DirectionFor(road, c[2], c[1], drv.desire, r)
                    cells == CellsOf(m.road, d)
                IN /\ m.fault = "none"
                   /\ Cardinality(cells) = 1
                   /\ \A e \in cells : e[1] = c[2] + dir
                   /\ drv.desire = CRUISE => \A e \in cells : e[1] = c[2]
                   /\ (drv.desire = LANE_CHANGE /\ dir = 0) =>
                        m.drivers[d].desire = LANE_CHANGE

\* A driver of the middle lane that wanted a lane change has gone right although
\* the left check passes as well: the draw was above the threshold.
C21_Witness ==
  /\ program = "highway_sim_V2"
  /\ NumLanesOf(road) = 3
  /\ AfterSimDriver
  /\ LastVisit.desire = LANE_CHANGE
  /\ LastVisit.lane = 1
  /\ \E e \in CellsOf(road, LastVisit.ref) : e[1] = 2
  /\ safe_left_lane_change(road, 1, LastVisit.pos).ret

Write(lane, index, value) == [lane |-> lane, index |-> index, value |-> value]
Abs(n) == IF n < 0 THEN -n ELSE n

\* C22: in highway_sim_V2 a call of sim_driver that takes the driver out of its
\* lane writes it to the same position of a lane one index away, into a cell that
\* was empty, clears the cell it came from, and then moves it forward by at least
\* one cell in the new lane by sim_cruise, all in the one call.  Over a tick a
\* driver's lane index changes by at most 1, and a driver whose lane changed has
\* advanced by at least one cell.
C22_LaneChange ==
  [][program = "highway_sim_V2" =>
       /\ IsSimDriverStep =>
            LET v == visits'[Len(visits')]
                cells == CellsOf(road', v.ref)
            IN \A e \in cells :
                 e[1] # v.lane =>
                   /\ Abs(e[1] - v.lane) = 1
                   /\ e[1] \in DOMAIN road
                   /\ road[e[1]][v.pos] = EMPTY
                   /\ e[2] >= v.pos + 1
                   /\ road[e[1]][e[2]] = EMPTY
                   /\ cells = {e}
                   /\ road'[v.lane][v.pos] = EMPTY
                   /\ road'[e[1]][v.pos] = EMPTY
                   /\ writes' = <<Write(e[1], v.pos, v.ref), Write(v.lane, v.pos, EMPTY),
                                  Write(e[1], e[2], v.ref), Write(e[1], v.pos, EMPTY)>>
       /\ (pc = "sweep" /\ pc' = "run") =>
            \A c \in Occupied(road), c0 \in Occupied(start_road) :
              road[c[1]][c[2]] = start_road[c0[1]][c0[2]] =>
                /\ Abs(c[1] - c0[1]) <= 1
                /\ c[1] # c0[1] => c[2] >= c0[2] + 1]_vars

\* A driver has left its lane in the call of sim_driver and has moved forward in
\* the lane next to it.
C22_Witness ==
  /\ program = "highway_sim_V2"
  /\ AfterSimDriver
  /\ Len(writes) = 4
  /\ \E e \in CellsOf(road, LastVisit.ref) :
       /\ Abs(e[1] - LastVisit.lane) = 1
       /\ e[2] > LastVisit.pos
       /\ road[LastVisit.lane][LastVisit.pos] = EMPTY

\* C23 (as claimed): in highway_sim_V2, after each single write of Highway.set
\* that a step makes, no driver is held by more than one cell of the road.
C23_OneCellAfterEveryWrite ==
  [][program = "highway_sim_V2" =>
       \A n \in 1 .. Len(writes') :
         LET mid == RoadAfter(road, writes', n)
         IN \A c1, c2 \in Occupied(mid) :
              mid[c1[1]][c1[2]] = mid[c2[1]][c2[2]] => c1 = c2]_vars

\* C24 (as claimed): in highway_sim_V2, at the end of a tick every driver that
\* was on the road at its start and still is has at least safe_follow empty cells
\* directly ahead in its lane, the cells past the end of the road counted as empty.
C24_MinimumGap ==
  (program = "highway_sim_V2" /\ EndOfTick) =>
    \A c \in Occupied(road) :
      LET d == road[c[1]][c[2]]
      IN d \in OnGrid(start_road) =>
           ClearAhead(road, c[1], c[2], drivers[d].safe_follow) = drivers[d].safe_follow

\* C25 (as claimed): in sim_client_requests, on an empty road of
\* NUM_DEF_LANES + NUM_SD_LANES lanes and at a position with the whole window on
\* the road, safe_right_lane_change returns True for every lane but the last and
\* False, without an error, for the last; safe_left_lane_change returns True for
\* every lane but lane 0 and False for lane 0.
C25_PositionalAdjacency ==
  (/\ program = "client_calls"
   /\ IsLaneChangeCall
   /\ Occupied(road) = {}
   /\ LANE_CHANGE_SAFE_BACK <= call.index
   /\ call.index <= LengthOf(road) - 1 - LANE_CHANGE_SAFE_FORWARD) =>
    /\ call.fault = "none"
    /\ call.ret = ~Outward

\* C26 (as claimed): in a call of gen_new_drivers of sim_client_requests a human
\* driver is put in a default lane and an autonomous one in a self-driving lane,
\* no lane receives two drivers, and every driver created is on the road when the
\* call returns.
C26_ArrivalsByGroup ==
  [][(program = "sim_client_requests" /\ pc = "sweep" /\ pc' = "run") =>
       /\ \A n \in 1 .. Len(writes') :
            LET w == writes'[n]
            IN /\ w.index = 0
               /\ w.value \in created'
               /\ drivers'[w.value].is_human => w.lane \in 0 .. NUM_DEF_LANES - 1
               /\ ~drivers'[w.value].is_human =>
                    w.lane \in NUM_DEF_LANES .. NUM_DEF_LANES + NUM_SD_LANES - 1
       /\ \A n, k \in 1 .. Len(writes') : writes'[n].lane = writes'[k].lane => n = k
       /\ created' \subseteq OnGrid(road')]_vars

\* The entries of data written for driver d.
RecordsOf(d) == {n \in 1 .. Len(data) : data[n].id = drivers[d].id}

C28_DesireBetweenCalls ==
  (program \in {"highway_sim_V2", "sim_client_requests"} /\ fault = "none") =>
    /\ \A d \in 1 .. Len(drivers) : drivers[d].desire \in {CRUISE, LANE_CHANGE}
    /\ (program = "highway_sim_V2" /\ pc = "sweep") =>
         LET c == NextVisit(road, cursor)
         IN c[1] >= 0 =>
              LET d == road[c[2]][c[1]]
              IN c[1] + drivers[d].speed < LengthOf(road) - 1 =>
                   \A r \in RandomDraws :
                     LET chosen == choose_direction(Machine, c[2], c[1], d, r)
                         m == change_and_cruise(chosen, c[2], c[1], d)
                         side == IF chosen.drivers[d].desire = LANE_CHANGE_LEFT THEN -1
                                 ELSE IF chosen.drivers[d].desire = LANE_CHANGE_RIGHT THEN 1
                                 ELSE 0
                     IN /\ chosen.road = road
                        /\ m.drivers[d].desire \in {CRUISE, LANE_CHANGE}
                        /\ \A e \in CellsOf(m.road, d) : e[1] = c[2] + side
                        /\ side # 0 => drivers[d].desire = LANE_CHANGE

\* At the end of a tick a driver that wanted a lane change is in another lane and
\* its desire is Cruise again.
C28_Witness ==
  /\ EndOfTick
  /\ \E n \in 1 .. Len(visits) :
       /\ visits[n].desire = LANE_CHANGE
       /\ drivers[visits[n].ref].desire = CRUISE
       /\ \E e \in CellsOf(road, visits[n].ref) : e[1] # visits[n].lane

\* C29: in highway_sim_V2 the desire of a driver changes only in the call of
\* sim_driver that processes it, and a driver processed with desire Lane Change
\* that is not in another lane after the call still has desire Lane Change, also
\* when it moved at full speed or left the road; its desire is Cruise after the
\* call only if the call changed its lane.
C29_LeavesOnlyByLaneChange ==
  [][program = "highway_sim_V2" =>
       /\ \A d \in 1 .. Len(drivers) :
            drivers'[d].desire # drivers[d].desire =>
              IsSimDriverStep /\ visits'[Len(visits')].ref = d
       /\ IsSimDriverStep =>
            LET v == visits'[Len(visits')]
                moved == \E e \in CellsOf(road', v.ref) : e[1] # v.lane
            IN v.desire = LANE_CHANGE =>
                 /\ ~moved => drivers'[v.ref].desire = LANE_CHANGE
                 /\ drivers'[v.ref].desire # LANE_CHANGE =>
                      moved /\ drivers'[v.ref].desire = CRUISE]_vars

\* A driver that wanted a lane change and did not get one has moved at full speed
\* in its lane and still wants the lane change.
C29_Witness ==
  /\ program = "highway_sim_V2"
  /\ NumLanesOf(road) > 1
  /\ AfterSimDriver
  /\ LastVisit.desire = LANE_CHANGE
  /\ LastVisit.pos + drivers[LastVisit.ref].speed < LengthOf(road) - 1
  /\ road[LastVisit.lane][LastVisit.pos + drivers[LastVisit.ref].speed] = LastVisit.ref
  /\ drivers[LastVisit.ref].desire = LANE_CHANGE

====
